---- MODULE Spec2Model ----
(***************************************************************************)
(* Model of the JSON value type, serializer and recursive-descent parser   *)
(* of JSONParser (src/JSONParser/Json.h, src/JSONParser/Json.cpp).         *)
(*                                                                         *)
(* A std::string is a sequence of bytes 0..255.  A Json is a record whose  *)
(* field t names the active alternative of the std::variant:               *)
(*   [t |-> "null"]                                                        *)
(*   [t |-> "bool",   b |-> BOOLEAN]                                       *)
(*   [t |-> "number", n |-> mantissa, e |-> decimal exponent]              *)
(*   [t |-> "string", s |-> bytes]                                         *)
(*   [t |-> "array",  a |-> sequence of Json]                              *)
(*   [t |-> "object", o |-> function from keys (bytes) to Json]            *)
(***************************************************************************)
EXTENDS Integers, Sequences, FiniteSets, TLC

\* ------------------------------------------------------------------------
\* Bounds of the model
\* ------------------------------------------------------------------------
MaxStrLen == 2
MaxKeyLen == 2
MaxDepth == 2

\* ------------------------------------------------------------------------
\* Character codes used by the serializer and the parser
\* ------------------------------------------------------------------------
QUOTE == 34
BACKSLASH == 92
SLASH == 47
BS == 8
FF == 12
NL == 10
CR == 13
TAB == 9
VT == 11
SPACE == 32
COMMA == 44
COLON == 58
LBRACKET == 91
RBRACKET == 93
LBRACE == 123
RBRACE == 125
MINUS == 45
PLUS == 43
DOT == 46
DIGIT0 == 48
DIGIT9 == 57
QMARK == 63
NUL == 0
CTRL_LIMIT == 32
ASCII_LIMIT == 128

\* "null", "true", "false" as bytes
NullText == <<110, 117, 108, 108>>
TrueText == <<116, 114, 117, 101>>
FalseText == <<102, 97, 108, 115, 101>>

Max(a, b) == IF a >= b THEN a ELSE b
Min(a, b) == IF a <= b THEN a ELSE b

\* ------------------------------------------------------------------------
\* Json constructors (Json.h:22-33) and type checkers (Json.h:36-41)
\* ------------------------------------------------------------------------
RECURSIVE Pow10(_)
Pow10(k) == IF k = 0 THEN 1 ELSE 10 * Pow10(k - 1)

\* A double holding the decimal m * 10^x, in canonical form: the mantissa
\* carries no trailing zero, and zero is 0 * 10^0 (-0.0 == 0.0 in C++).
RECURSIVE Dec(_, _)
Dec(m, x) ==
  IF m = 0 THEN [n |-> 0, e |-> 0]
  ELSE IF m % 10 = 0 THEN Dec(m \div 10, x + 1)
  ELSE [n |-> m, e |-> x]

JNull == [t |-> "null"]
JBool(b) == [t |-> "bool", b |-> b]
JNumber(i) == [t |-> "number", n |-> Dec(i, 0).n, e |-> Dec(i, 0).e]
JDouble(m, x) == [t |-> "number", n |-> Dec(m, x).n, e |-> Dec(m, x).e]
JString(s) == [t |-> "string", s |-> s]
JArray(a) == [t |-> "array", a |-> a]
JObject(o) == [t |-> "object", o |-> o]

is_null(j) == j.t = "null"
is_bool(j) == j.t = "bool"
is_number(j) == j.t = "number"
is_string(j) == j.t = "string"
is_array(j) == j.t = "array"
is_object(j) == j.t = "object"

\* The empty std::map
EmptyMap == [k \in {} |-> JNull]

\* std::map<std::string, Json>::operator[]= : insert or overwrite
MapPut(o, k, v) == [x \in DOMAIN o \cup {k} |-> IF x = k THEN v ELSE o[x]]

\* std::less<std::string>: lexicographic order on unsigned bytes
RECURSIVE StrLess(_, _)
StrLess(a, b) ==
  IF b = <<>> THEN FALSE
  ELSE IF a = <<>> THEN TRUE
  ELSE IF a[1] # b[1] THEN a[1] < b[1]
  ELSE StrLess(Tail(a), Tail(b))

\* The keys of a std::map in iteration order
RECURSIVE SortedKeys(_)
SortedKeys(ks) ==
  IF ks = {} THEN <<>>
  ELSE LET m == CHOOSE k \in ks : \A x \in ks \ {k} : StrLess(k, x)
       IN <<m>> \o SortedKeys(ks \ {m})

\* ------------------------------------------------------------------------
\* Serialization: Json::stringify (Json.cpp:85-171)
\* ------------------------------------------------------------------------
\* The decimal digits of a natural number, as bytes
RECURSIVE Digits(_)
Digits(n) ==
  IF n < 10 THEN <<DIGIT0 + n>> ELSE Digits(n \div 10) \o <<DIGIT0 + (n % 10)>>

\* oss << static_cast<long long>(num)
IntText(i) == IF i < 0 THEN <<MINUS>> \o Digits(0 - i) ELSE Digits(i)

RECURSIVE Repeat(_, _)
Repeat(c, k) == IF k <= 0 THEN <<>> ELSE <<c>> \o Repeat(c, k - 1)

RECURSIVE StripZeros(_)
StripZeros(ds) ==
  IF Len(ds) > 1 /\ ds[Len(ds)] = DIGIT0
  THEN StripZeros(SubSeq(ds, 1, Len(ds) - 1))
  ELSE ds

\* The digits ds of a double with decimal exponent X, as %g writes them
FloatFormat(ds, X) ==
  IF X < 0 - 4 \/ X >= 6
  THEN <<ds[1]>> \o (IF Len(ds) > 1 THEN <<DOT>> \o Tail(ds) ELSE <<>>) \o <<101>>
       \o (IF X < 0 THEN <<MINUS>> ELSE <<PLUS>>)
       \o (IF X > 0 - 10 /\ X < 10 THEN <<DIGIT0>> ELSE <<>>)
       \o Digits(IF X < 0 THEN 0 - X ELSE X)
  ELSE IF X < 0
  THEN <<DIGIT0, DOT>> \o Repeat(DIGIT0, 0 - X - 1) \o ds
  ELSE IF Len(ds) > X + 1
  THEN SubSeq(ds, 1, X + 1) \o <<DOT>> \o SubSeq(ds, X + 2, Len(ds))
  ELSE ds \o Repeat(DIGIT0, X + 1 - Len(ds))

\* Six significant digits: cut is the mantissa rounded to six digits
FloatRounded(cut, X) ==
  IF cut = Pow10(6) THEN FloatFormat(<<DIGIT0 + 1>>, X + 1)
  ELSE FloatFormat(StripZeros(Digits(cut)), X)

\* abs has k digits
FloatAbs(abs, k, x) ==
  IF k > 6
  THEN FloatRounded((abs + 5 * Pow10(k - 7)) \div Pow10(k - 6), k - 1 + x)
  ELSE FloatFormat(StripZeros(Digits(abs)), k - 1 + x)

\* oss << num for a double that is not integral (Json.cpp:108): the
\* stream's default format, %g with precision 6.  m is the mantissa, x < 0
\* its decimal exponent; the rounding to six significant digits is done on
\* the decimal digits.
FloatText(m, x) ==
  (IF m < 0 THEN <<MINUS>> ELSE <<>>)
  \o FloatAbs(IF m < 0 THEN 0 - m ELSE m, Len(Digits(IF m < 0 THEN 0 - m ELSE m)), x)

\* Json.cpp:101-110
NumberText(j) ==
  IF j.e >= 0 THEN IntText(j.n * Pow10(j.e)) ELSE FloatText(j.n, j.e)

HexDigit(d) == IF d < 10 THEN DIGIT0 + d ELSE 97 + (d - 10)

RECURSIVE HexText(_)
HexText(n) ==
  IF n < 16 THEN <<HexDigit(n)>> ELSE HexText(n \div 16) \o <<HexDigit(n % 16)>>

\* oss << std::hex << std::setw(4) << std::setfill('0') << int(c)
Hex4(c) == Repeat(DIGIT0, 4 - Len(HexText(c))) \o HexText(c)

\* EscapeChar without std::setw(4) / std::setfill('0')
EscapeCharUnpadded(c) ==
  CASE c = QUOTE -> <<BACKSLASH, QUOTE>>
    [] c = BACKSLASH -> <<BACKSLASH, BACKSLASH>>
    [] c = BS -> <<BACKSLASH, 98>>
    [] c = FF -> <<BACKSLASH, 102>>
    [] c = NL -> <<BACKSLASH, 110>>
    [] c = CR -> <<BACKSLASH, 114>>
    [] c = TAB -> <<BACKSLASH, 116>>
    [] OTHER -> IF c < CTRL_LIMIT THEN <<BACKSLASH, 117>> \o HexText(c) ELSE <<c>>

\* One character of a string payload (Json.cpp:114-130)
EscapeChar(c) ==
  CASE c = QUOTE -> <<BACKSLASH, QUOTE>>
    [] c = BACKSLASH -> <<BACKSLASH, BACKSLASH>>
    [] c = BS -> <<BACKSLASH, 98>>
    [] c = FF -> <<BACKSLASH, 102>>
    [] c = NL -> <<BACKSLASH, 110>>
    [] c = CR -> <<BACKSLASH, 114>>
    [] c = TAB -> <<BACKSLASH, 116>>
    [] OTHER -> IF c < CTRL_LIMIT THEN <<BACKSLASH, 117>> \o Hex4(c) ELSE <<c>>

RECURSIVE EscapeAll(_)
EscapeAll(s) ==
  IF s = <<>> THEN <<>> ELSE EscapeChar(Head(s)) \o EscapeAll(Tail(s))

\* Json.cpp:111-133
StringText(s) == <<QUOTE>> \o EscapeAll(s) \o <<QUOTE>>

\* make_indent (Json.cpp:88-93)
make_indent(pretty, indent) == IF pretty THEN Repeat(SPACE, indent * 2) ELSE <<>>

\* An object key as the serializer writes it (Json.cpp:159): the key's
\* bytes between two quotes, then ": "
KeyText(key) == <<QUOTE>> \o key \o <<QUOTE, COLON, SPACE>>

RECURSIVE stringify(_, _, _)
RECURSIVE ArrayItems(_, _, _, _)
RECURSIVE ObjectItems(_, _, _, _, _)

\* The loop of Json.cpp:139-145, from element i (1-based) on
ArrayItems(arr, i, pretty, indent) ==
  IF i > Len(arr) THEN <<>>
  ELSE make_indent(pretty, indent)
       \o (IF pretty THEN <<SPACE, SPACE>> ELSE <<>>)
       \o stringify(arr[i], pretty, indent + 1)
       \o (IF i < Len(arr) THEN <<COMMA>> ELSE <<>>)
       \o (IF pretty THEN <<NL>> ELSE <<>>)
       \o ArrayItems(arr, i + 1, pretty, indent)

\* The loop of Json.cpp:156-164, from the i-th key (1-based) on
ObjectItems(obj, keys, i, pretty, indent) ==
  IF i > Len(keys) THEN <<>>
  ELSE make_indent(pretty, indent)
       \o (IF pretty THEN <<SPACE, SPACE>> ELSE <<>>)
       \o KeyText(keys[i])
       \o stringify(obj[keys[i]], pretty, indent + 1)
       \o (IF i < Len(keys) THEN <<COMMA>> ELSE <<>>)
       \o (IF pretty THEN <<NL>> ELSE <<>>)
       \o ObjectItems(obj, keys, i + 1, pretty, indent)

stringify(j, pretty, indent) ==
  CASE is_null(j) -> NullText
    [] is_bool(j) -> IF j.b THEN TrueText ELSE FalseText
    [] is_number(j) -> NumberText(j)
    [] is_string(j) -> StringText(j.s)
    [] is_array(j) ->
         <<LBRACKET>>
         \o (IF pretty /\ j.a # <<>> THEN <<NL>> ELSE <<>>)
         \o ArrayItems(j.a, 1, pretty, indent)
         \o (IF pretty /\ j.a # <<>> THEN make_indent(pretty, indent) ELSE <<>>)
         \o <<RBRACKET>>
    [] is_object(j) ->
         <<LBRACE>>
         \o (IF pretty /\ DOMAIN j.o # {} THEN <<NL>> ELSE <<>>)
         \o ObjectItems(j.o, SortedKeys(DOMAIN j.o), 1, pretty, indent)
         \o (IF pretty /\ DOMAIN j.o # {} THEN make_indent(pretty, indent) ELSE <<>>)
         \o <<RBRACE>>

\* ------------------------------------------------------------------------
\* Parser: class JsonParser (Json.cpp:175-443)
\*
\* The parser's state is p = [pos, rd]: pos is the cursor pos_, rd the
\* highest index of json_ read so far (-1: none yet).  A parsing function
\* ends with Ok (the value and the state after it) or Err (the
\* JsonParseError's message and position, and the state at the throw).
\* ------------------------------------------------------------------------
Start == [pos |-> 0, rd |-> 0 - 1]

Ok(v, p) == [ok |-> TRUE, val |-> v, p |-> p]
Err(msg, at, p) == [ok |-> FALSE, msg |-> msg, at |-> at, p |-> p]

\* json_[i]
At(json, i) == IF i < Len(json) THEN json[i + 1] ELSE NUL

\* The state after reading json_[i]
Touch(p, i) == [p EXCEPT !.rd = Max(@, i)]

\* json_.substr(from, count), and the state after reading it
Substr(json, from, count) == SubSeq(json, from + 1, Min(from + count, Len(json)))
SubstrRead(json, p, count) ==
  IF Min(p.pos + count, Len(json)) > p.pos
  THEN Touch(p, Min(p.pos + count, Len(json)) - 1)
  ELSE p

\* std::isspace / std::isdigit in the "C" locale
IsSpace(c) == c \in {SPACE, TAB, NL, VT, FF, CR}
IsDigit(c) == c >= DIGIT0 /\ c <= DIGIT9

\* current() (Json.cpp:195-200)
current(json, p) ==
  IF p.pos >= Len(json)
  THEN Err("Unexpected end of input", p.pos, p)
  ELSE [ok |-> TRUE, c |-> At(json, p.pos), p |-> Touch(p, p.pos)]

\* peek() (Json.cpp:202-207): the character, and the state after the read
peek(json, p) == IF p.pos >= Len(json) THEN NUL ELSE At(json, p.pos)
peeked(json, p) == IF p.pos >= Len(json) THEN p ELSE Touch(p, p.pos)

\* advance() (Json.cpp:209-213)
advance(json, p) == IF p.pos < Len(json) THEN [p EXCEPT !.pos = @ + 1] ELSE p

\* skip_whitespace() (Json.cpp:215-220)
RECURSIVE skip_whitespace(_, _)
skip_whitespace(json, p) ==
  IF p.pos < Len(json)
  THEN IF IsSpace(At(json, p.pos))
       THEN skip_whitespace(json, [pos |-> p.pos + 1, rd |-> Max(p.rd, p.pos)])
       ELSE Touch(p, p.pos)
  ELSE p

\* parse_null() (Json.cpp:237-244)
parse_null(json, p) ==
  IF Substr(json, p.pos, 4) = NullText
  THEN Ok(JNull, [SubstrRead(json, p, 4) EXCEPT !.pos = @ + 4])
  ELSE Err("Invalid null value", p.pos, SubstrRead(json, p, 4))

\* parse_bool() (Json.cpp:246-257)
parse_bool(json, p) ==
  IF Substr(json, p.pos, 4) = TrueText
  THEN Ok(JBool(TRUE), [SubstrRead(json, p, 4) EXCEPT !.pos = @ + 4])
  ELSE IF Substr(json, p.pos, 5) = FalseText
  THEN Ok(JBool(FALSE), [SubstrRead(json, p, 5) EXCEPT !.pos = @ + 5])
  ELSE Err("Invalid boolean value", p.pos, SubstrRead(json, p, 5))

\* x, named in F: a local variable that is computed once
With(x, F(_)) == F(x)

\* The loops of Json.cpp:269-271, 282-284, 293-295
RECURSIVE ScanDigits(_, _)
ScanDigits(json, p) ==
  IF p.pos < Len(json) /\ IsDigit(peek(json, p))
  THEN ScanDigits(json, advance(json, peeked(json, p)))
  ELSE peeked(json, p)

\* The value of a run of decimal digits
RECURSIVE DigitsVal(_)
DigitsVal(ds) ==
  IF ds = <<>> THEN 0
  ELSE 10 * DigitsVal(SubSeq(ds, 1, Len(ds) - 1)) + (ds[Len(ds)] - DIGIT0)

\* The part of s before, and after, its first character in set
RECURSIVE Before(_, _)
Before(s, set) ==
  IF s = <<>> \/ Head(s) \in set THEN <<>> ELSE <<Head(s)>> \o Before(Tail(s), set)
After(s, set) == SubSeq(s, Len(Before(s, set)) + 2, Len(s))

Abs(i) == IF i < 0 THEN 0 - i ELSE i

\* A decimal of k digits, abs * 10^x, lies within the normal doubles,
\* 2.2250738e-308 .. 1.7976931e+308
InNormalRange(abs, k, x) ==
  /\ k - 1 + x <= 308
  /\ k - 1 + x >= 0 - 308
  /\ k - 1 + x = 308 =>
       (IF k >= 8 THEN abs \div Pow10(k - 8) ELSE abs * Pow10(8 - k)) <= 17976931
  /\ k - 1 + x = 0 - 308 =>
       (IF k >= 8 THEN abs \div Pow10(k - 8) ELSE abs * Pow10(8 - k)) >= 22250739

\* std::stod reports ERANGE (std::out_of_range) when the value is not zero
\* and lies outside the normal doubles
StodInRange(d) == d.n = 0 \/ InNormalRange(Abs(d.n), Len(Digits(Abs(d.n))), d.e)

\* std::stod on a digit run with an optional fraction, and its exponent
StodParts(sign, mant, exp) ==
  Dec(sign * DigitsVal(Before(mant, {DOT}) \o After(mant, {DOT})),
      (IF exp # <<>> /\ Head(exp) = MINUS THEN 0 - DigitsVal(Tail(exp))
       ELSE IF exp # <<>> /\ Head(exp) = PLUS THEN DigitsVal(Tail(exp))
       ELSE DigitsVal(exp))
      - Len(After(mant, {DOT})))

StodUnsigned(sign, body) ==
  StodParts(sign, Before(body, {101, 69}), After(body, {101, 69}))

\* std::stod(num_str) (Json.cpp:300) on a text of the number grammar: the
\* decimal it denotes
Stod(num_str) ==
  IF Head(num_str) = MINUS THEN StodUnsigned(0 - 1, Tail(num_str))
  ELSE StodUnsigned(1, num_str)

\* Json.cpp:298-304
NumberEnd(json, start, p) ==
  With(Stod(Substr(json, start, p.pos - start)), LAMBDA d :
    IF StodInRange(d) THEN Ok([t |-> "number", n |-> d.n, e |-> d.e], p)
    ELSE Err("Invalid number format", start, p))

\* The exponent (Json.cpp:287-296)
NumberExponent(json, start, p) ==
  IF peek(json, p) \in {101, 69}
  THEN With(advance(json, peeked(json, p)), LAMBDA p1 :
       With(IF peek(json, p1) \in {PLUS, MINUS}
            THEN advance(json, peeked(json, p1))
            ELSE peeked(json, p1), LAMBDA p2 :
         IF ~IsDigit(peek(json, p2))
         THEN Err("Invalid number: expected digit in exponent", p2.pos,
                  peeked(json, p2))
         ELSE NumberEnd(json, start, ScanDigits(json, p2))))
  ELSE NumberEnd(json, start, peeked(json, p))

\* The fraction (Json.cpp:277-285)
NumberFraction(json, start, p) ==
  IF peek(json, p) = DOT
  THEN With(advance(json, peeked(json, p)), LAMBDA p1 :
         IF ~IsDigit(peek(json, p1))
         THEN Err("Invalid number: expected digit after decimal point", p1.pos,
                  peeked(json, p1))
         ELSE NumberExponent(json, start, ScanDigits(json, p1)))
  ELSE NumberExponent(json, start, peeked(json, p))

\* An integer part that scans digits after a leading '0' as well
NumberIntegerLeadingZeros(json, start, p) ==
  IF IsDigit(peek(json, p))
  THEN NumberFraction(json, start, ScanDigits(json, p))
  ELSE Err("Invalid number", p.pos, peeked(json, p))

\* The integer part (Json.cpp:265-275)
NumberInteger(json, start, p) ==
  IF peek(json, p) = DIGIT0
  THEN NumberFraction(json, start, advance(json, peeked(json, p)))
  ELSE IF IsDigit(peek(json, p))
  THEN NumberFraction(json, start, ScanDigits(json, p))
  ELSE Err("Invalid number", p.pos, peeked(json, p))

\* parse_number() (Json.cpp:259-305)
parse_number(json, p) ==
  IF peek(json, p) = MINUS
  THEN NumberInteger(json, p.pos, advance(json, peeked(json, p)))
  ELSE NumberInteger(json, p.pos, peeked(json, p))

\* std::stoi(hex, nullptr, 16) (Json.cpp:336), as strtol reads it: leading
\* whitespace, an optional sign, an optional 0x / 0X, then the longest run
\* of hex digits; what follows the run is ignored.  No digit at all is
\* std::invalid_argument: [ok |-> FALSE].
IsHex(c) == IsDigit(c) \/ (c >= 97 /\ c <= 102) \/ (c >= 65 /\ c <= 70)
HexVal(c) == IF IsDigit(c) THEN c - DIGIT0
             ELSE IF c >= 97 THEN c - 97 + 10 ELSE c - 65 + 10

RECURSIVE SkipSpaces(_)
SkipSpaces(s) == IF s # <<>> /\ IsSpace(Head(s)) THEN SkipSpaces(Tail(s)) ELSE s

RECURSIVE HexRun(_, _)
HexRun(s, acc) ==
  IF s # <<>> /\ IsHex(Head(s)) THEN HexRun(Tail(s), 16 * acc + HexVal(Head(s)))
  ELSE acc

StoiDigits(s, sign) ==
  IF s = <<>> \/ ~IsHex(Head(s)) THEN [ok |-> FALSE]
  ELSE [ok |-> TRUE, v |-> sign * HexRun(s, 0)]

StoiPrefix(s, sign) ==
  IF Len(s) >= 3 /\ s[1] = DIGIT0 /\ s[2] \in {120, 88} /\ IsHex(s[3])
  THEN StoiDigits(Tail(Tail(s)), sign)
  ELSE StoiDigits(s, sign)

StoiSign(s) ==
  IF s # <<>> /\ Head(s) = MINUS THEN StoiPrefix(Tail(s), 0 - 1)
  ELSE IF s # <<>> /\ Head(s) = PLUS THEN StoiPrefix(Tail(s), 1)
  ELSE StoiPrefix(s, 1)

StoiHex(hex) == StoiSign(SkipSpaces(hex))

\* The character an escape letter stands for (Json.cpp:322-329); -1: none
Unescape(c) ==
  CASE c = QUOTE -> QUOTE
    [] c = BACKSLASH -> BACKSLASH
    [] c = SLASH -> SLASH
    [] c = 98 -> BS
    [] c = 102 -> FF
    [] c = 110 -> NL
    [] c = 114 -> CR
    [] c = 116 -> TAB
    [] OTHER -> 0 - 1

\* Json.cpp:334-347; p is the state after the 'u'
UnicodeDigits(json, p) ==
  With(StoiHex(Substr(json, p.pos, 4)), LAMBDA r :
    IF ~r.ok
    THEN Err("Invalid unicode escape", p.pos, SubstrRead(json, p, 4))
    ELSE [ok |-> TRUE,
          c |-> IF r.v < ASCII_LIMIT THEN r.v % 256 ELSE QMARK,
          p |-> [SubstrRead(json, p, 4) EXCEPT !.pos = @ + 3]])

\* The \u case without the check of Json.cpp:332
UnicodeEscapeUnchecked(json, p) == UnicodeDigits(json, advance(json, p))

\* The \u case (Json.cpp:330-349); p is the state at the 'u'.  Ends with
\* the character appended to the result and the state the advance() of
\* line 353 starts from.
UnicodeEscape(json, p) ==
  With(advance(json, p), LAMBDA p1 :
    IF p1.pos + 4 > Len(json)
    THEN Err("Invalid unicode escape", p1.pos, p1)
    ELSE UnicodeDigits(json, p1))

RECURSIVE StringLoop(_, _, _)

\* An escape sequence (Json.cpp:316-353); p is the state at the backslash
StringEscape(json, p, result) ==
  With(advance(json, peeked(json, p)), LAMBDA p1 :
    IF p1.pos >= Len(json)
    THEN Err("Unterminated string", p1.pos, p1)
    ELSE IF peek(json, p1) = 117
    THEN With(UnicodeEscape(json, peeked(json, p1)), LAMBDA u :
           IF u.ok
           THEN StringLoop(json, advance(json, u.p), result \o <<u.c>>)
           ELSE u)
    ELSE IF Unescape(peek(json, p1)) = 0 - 1
    THEN Err("Invalid escape sequence", p1.pos, peeked(json, p1))
    ELSE StringLoop(json, advance(json, peeked(json, p1)),
                    result \o <<Unescape(peek(json, p1))>>))

\* The loop of parse_string() and its end (Json.cpp:314-365)
StringLoop(json, p, result) ==
  IF p.pos < Len(json) /\ peek(json, p) # QUOTE
  THEN IF peek(json, p) = BACKSLASH
       THEN StringEscape(json, p, result)
       ELSE StringLoop(json, advance(json, peeked(json, p)),
                       result \o <<peek(json, p)>>)
  ELSE IF peek(json, p) # QUOTE
  THEN Err("Unterminated string", p.pos, peeked(json, p))
  ELSE Ok(JString(result), advance(json, peeked(json, p)))

\* parse_string() (Json.cpp:307-366)
parse_string(json, p) ==
  With(current(json, p), LAMBDA c :
    IF ~c.ok THEN c
    ELSE IF c.c # QUOTE THEN Err("Expected '\"'", p.pos, c.p)
    ELSE StringLoop(json, advance(json, c.p), <<>>))

RECURSIVE parse_value(_, _)
RECURSIVE ArrayLoop(_, _, _)
RECURSIVE ObjectLoop(_, _, _)

\* An array that may end after a ','
ArrayNextLenient(json, p, arr) ==
  IF peek(json, p) = RBRACKET
  THEN Ok(JArray(arr), advance(json, peeked(json, p)))
  ELSE IF peek(json, p) # COMMA
  THEN Err("Expected ',' or ']' in array", p.pos, peeked(json, p))
  ELSE With(skip_whitespace(json, advance(json, peeked(json, p))), LAMBDA p1 :
         IF peek(json, p1) = RBRACKET
         THEN Ok(JArray(arr), advance(json, peeked(json, p1)))
         ELSE ArrayLoop(json, p1, arr))

\* After an element (Json.cpp:384-394); p is the state after
\* skip_whitespace()
ArrayNext(json, p, arr) ==
  IF peek(json, p) = RBRACKET
  THEN Ok(JArray(arr), advance(json, peeked(json, p)))
  ELSE IF peek(json, p) # COMMA
  THEN Err("Expected ',' or ']' in array", p.pos, peeked(json, p))
  ELSE ArrayLoop(json, skip_whitespace(json, advance(json, peeked(json, p))), arr)

\* The loop of parse_array() (Json.cpp:382-397)
ArrayLoop(json, p, arr) ==
  With(parse_value(json, p), LAMBDA v :
    IF ~v.ok THEN v
    ELSE ArrayNext(json, skip_whitespace(json, v.p), Append(arr, v.val)))

\* Json.cpp:373-397; p is the state after skip_whitespace()
ArrayBody(json, p) ==
  IF peek(json, p) = RBRACKET
  THEN Ok(JArray(<<>>), advance(json, peeked(json, p)))
  ELSE ArrayLoop(json, peeked(json, p), <<>>)

\* parse_array() (Json.cpp:368-398)
parse_array(json, p) ==
  With(current(json, p), LAMBDA c :
    IF ~c.ok THEN c
    ELSE IF c.c # LBRACKET THEN Err("Expected '['", p.pos, c.p)
    ELSE ArrayBody(json, skip_whitespace(json, advance(json, c.p))))

\* After an entry (Json.cpp:429-438); p is the state after
\* skip_whitespace()
ObjectNext(json, p, obj) ==
  IF peek(json, p) = RBRACE
  THEN Ok(JObject(obj), advance(json, peeked(json, p)))
  ELSE IF peek(json, p) # COMMA
  THEN Err("Expected ',' or '}' in object", p.pos, peeked(json, p))
  ELSE ObjectLoop(json, advance(json, peeked(json, p)), obj)

\* An entry that is put with std::map::insert: a key that is already there
\* keeps its value
ObjectEntryInsert(json, p, obj, key) ==
  With(parse_value(json, p), LAMBDA v :
    IF ~v.ok THEN v
    ELSE ObjectNext(json, skip_whitespace(json, v.p),
                    IF key \in DOMAIN obj THEN obj ELSE MapPut(obj, key, v.val)))

\* obj[key] = parse_value() (Json.cpp:428-429)
ObjectEntry(json, p, obj, key) ==
  With(parse_value(json, p), LAMBDA v :
    IF ~v.ok THEN v
    ELSE ObjectNext(json, skip_whitespace(json, v.p), MapPut(obj, key, v.val)))

\* After the key (Json.cpp:421-426); p is the state after skip_whitespace()
ObjectColon(json, p, obj, key) ==
  IF peek(json, p) # COLON
  THEN Err("Expected ':' after key in object", p.pos, peeked(json, p))
  ELSE ObjectEntry(json, skip_whitespace(json, advance(json, peeked(json, p))),
                   obj, key)

\* The key (Json.cpp:417-421); p is the state after skip_whitespace()
ObjectKey(json, p, obj) ==
  IF peek(json, p) # QUOTE
  THEN Err("Expected string key in object", p.pos, peeked(json, p))
  ELSE With(parse_string(json, peeked(json, p)), LAMBDA k :
         IF ~k.ok THEN k
         ELSE ObjectColon(json, skip_whitespace(json, k.p), obj, k.val.s))

\* The loop of parse_object() (Json.cpp:414-441)
ObjectLoop(json, p, obj) == ObjectKey(json, skip_whitespace(json, p), obj)

\* Json.cpp:405-441; p is the state after skip_whitespace()
ObjectBody(json, p) ==
  IF peek(json, p) = RBRACE
  THEN Ok(JObject(EmptyMap), advance(json, peeked(json, p)))
  ELSE ObjectLoop(json, peeked(json, p), EmptyMap)

\* parse_object() (Json.cpp:400-442)
parse_object(json, p) ==
  With(current(json, p), LAMBDA c :
    IF ~c.ok THEN c
    ELSE IF c.c # LBRACE THEN Err("Expected '{'", p.pos, c.p)
    ELSE ObjectBody(json, skip_whitespace(json, advance(json, c.p))))

\* The dispatch of parse_value() (Json.cpp:225-234); c is current()
Dispatch(json, c) ==
  IF ~c.ok THEN c
  ELSE IF c.c = 110 THEN parse_null(json, c.p)
  ELSE IF c.c \in {116, 102} THEN parse_bool(json, c.p)
  ELSE IF c.c = QUOTE THEN parse_string(json, c.p)
  ELSE IF c.c = LBRACKET THEN parse_array(json, c.p)
  ELSE IF c.c = LBRACE THEN parse_object(json, c.p)
  ELSE IF c.c = MINUS \/ IsDigit(c.c) THEN parse_number(json, c.p)
  ELSE Err("Unexpected character", c.p.pos, c.p)

\* parse_value() (Json.cpp:222-235)
parse_value(json, p) == Dispatch(json, current(json, skip_whitespace(json, p)))

\* A parse() that stops after the value
TopLevelEndLenient(json, v, p) == Ok(v, p)

\* Json.cpp:184-188; p is the state after skip_whitespace()
TopLevelEnd(json, v, p) ==
  IF p.pos < Len(json)
  THEN Err("Unexpected characters after JSON value", p.pos, p)
  ELSE Ok(v, p)

\* JsonParser::parse() (Json.cpp:180-189)
parse(json) ==
  With(parse_value(json, skip_whitespace(json, Start)), LAMBDA v :
    IF ~v.ok THEN v
    ELSE TopLevelEnd(json, v.val, skip_whitespace(json, v.p)))

\* What the caller of Json::parse gets: the value, or the JsonParseError
\* with its position(); pos and rd are the parser's final cursor and the
\* highest index it read
Outcome(r) ==
  IF r.ok
  THEN [kind |-> "value", val |-> r.val, pos |-> r.p.pos, rd |-> r.p.rd]
  ELSE [kind |-> "error", msg |-> r.msg, at |-> r.at,
        pos |-> r.p.pos, rd |-> r.p.rd]

\* Json::parse (Json.cpp:445-449)
ParseResult(json) == Outcome(parse(json))

\* ------------------------------------------------------------------------
\* Accessors (Json.cpp:8-81).  A call ends with Ret (the payload or the
\* referenced element) or Throw (std::runtime_error with its message).
\* ------------------------------------------------------------------------
Ret(x) == [kind |-> "value", val |-> x]
Throw(msg) == [kind |-> "runtime_error", msg |-> msg]

\* Json.cpp:8-13
as_bool(j) ==
  IF ~is_bool(j) THEN Throw("JSON value is not a boolean") ELSE Ret(j.b)

\* Json.cpp:15-20
as_number(j) ==
  IF ~is_number(j) THEN Throw("JSON value is not a number")
  ELSE Ret([n |-> j.n, e |-> j.e])

\* Json.cpp:22-27
as_string(j) ==
  IF ~is_string(j) THEN Throw("JSON value is not a string") ELSE Ret(j.s)

\* Json.cpp:29-34 and 43-48
as_array(j) ==
  IF ~is_array(j) THEN Throw("JSON value is not an array") ELSE Ret(j.a)

\* Json.cpp:36-41 and 50-55
as_object(j) ==
  IF ~is_object(j) THEN Throw("JSON value is not an object") ELSE Ret(j.o)

\* What reading a Json beyond the end of a std::vector's elements may give
Garbage == {JNull, JNumber(7)}

\* std::vector<Json>::operator[](index): unchecked; with index >= size()
\* the behaviour is undefined: the process may die, or the call returns a
\* reference to whatever lies there
VectorAt(a, index) ==
  IF index < Len(a) THEN {Ret(a[index + 1])}
  ELSE {[kind |-> "crash"]} \cup {Ret(g) : g \in Garbage}

\* Json::operator[](size_t), both forms (Json.cpp:59-67): the possible
\* outcomes
index_at(j, index) ==
  IF as_array(j).kind = "runtime_error" THEN {as_array(j)}
  ELSE VectorAt(as_array(j).val, index)

\* MapIndex that value-initializes the entry on every call
MapIndexReset(o, key) == MapPut(o, key, JNull)

\* std::map<std::string, Json>::operator[](key): the map after the call
MapIndex(o, key) == IF key \in DOMAIN o THEN o ELSE MapPut(o, key, JNull)

\* index_key that turns a null into an object instead of throwing
index_key_converting(j, key) ==
  IF is_null(j)
  THEN [res |-> Ret(JNull), json |-> JObject(MapPut(EmptyMap, key, JNull))]
  ELSE IF ~is_object(j) THEN [res |-> as_object(j), json |-> j]
  ELSE [res |-> Ret(MapIndex(j.o, key)[key]), json |-> JObject(MapIndex(j.o, key))]

\* Json::operator[](const std::string&) (Json.cpp:69-72): the outcome and
\* the Json after the call
index_key(j, key) ==
  IF ~is_object(j) THEN [res |-> as_object(j), json |-> j]
  ELSE [res |-> Ret(MapIndex(j.o, key)[key]), json |-> JObject(MapIndex(j.o, key))]

\* Json::operator[](const std::string&) const (Json.cpp:74-81)
index_key_const(j, key) ==
  IF ~is_object(j) THEN as_object(j)
  ELSE IF key \notin DOMAIN j.o THEN Throw("Key not found: ")
  ELSE Ret(j.o[key])

\* ------------------------------------------------------------------------
\* The values and texts the model runs the library on
\* ------------------------------------------------------------------------
\* All byte strings over chars of length at most n
Strs(chars, n) == UNION {[1..k -> chars] : k \in 0..n}

\* String payloads: every character the serializer escapes, a control
\* character it writes as \u00XX, and plain bytes (space, 'a', a byte
\* above 127)
StrChars == {QUOTE, BACKSLASH, BS, FF, NL, CR, TAB, 31, SPACE, 97, 233}

\* Object keys: '"', '\', 'n', 'a'
KeyChars == {QUOTE, BACKSLASH, 110, 97}
Keys == Strs(KeyChars, MaxKeyLen)

Numbers == {0, 7, 0 - 12, 100, 305}

Scalars ==
  {JNull, JBool(TRUE), JBool(FALSE)}
  \cup {JNumber(i) : i \in Numbers}
  \cup {JString(s) : s \in Strs(StrChars, MaxStrLen)}

\* Objects with one or two entries, over every key
KeyObjects ==
  {JObject(MapPut(EmptyMap, k, JNumber(1))) : k \in Keys}
  \cup {JObject(MapPut(MapPut(EmptyMap, k, JNull), <<97>>, JString(k))) : k \in Keys}

NestLeaves ==
  {JNull, JBool(FALSE), JNumber(0 - 12), JString(<<QUOTE, NL>>),
   JArray(<<>>), JObject(EmptyMap)}

\* Arrays and objects nested to depth d
RECURSIVE Nest(_)
Nest(d) ==
  IF d = 0 THEN NestLeaves
  ELSE LET prev == Nest(d - 1)
       IN prev
          \cup {JArray(<<x>>) : x \in prev}
          \cup {JArray(<<x, JNumber(7)>>) : x \in prev}
          \cup {JArray(<<JNull, x>>) : x \in prev}
          \cup {JObject(MapPut(EmptyMap, <<97>>, x)) : x \in prev}
          \cup {JObject(MapPut(MapPut(EmptyMap, <<98>>, x), <<97>>, JBool(TRUE))) :
                  x \in prev}

Values == Scalars \cup KeyObjects \cup Nest(MaxDepth)

\* ------------------------------------------------------------------------
\* State: what a caller of the library holds
\* ------------------------------------------------------------------------
VARIABLES
  value,    \* the Json the caller holds
  text,     \* the std::string handed to Json::parse
  origin,   \* where text comes from: "none", "compact", "pretty", "given"
  parsed,   \* the outcome of Json::parse(text), [kind |-> "none"] before
  out,      \* the outcome of stringify on the parsed value
  before,   \* the Json as it was before the last accessor call
  acc,      \* the outcome of the last accessor call
  calls,    \* the number of accessor calls made
  caught,   \* the number of accessor calls that threw
  given     \* how a given text was built

vars == <<value, text, origin, parsed, out, before, acc, calls, caught, given>>
textVars == <<text, origin, parsed, out, given>>
accVars == <<before, acc, calls, caught>>

None == [kind |-> "none"]

InitCaller ==
  /\ text = <<>>
  /\ origin = "none"
  /\ parsed = None
  /\ out = None
  /\ before = JNull
  /\ acc = None
  /\ calls = 0
  /\ caught = 0
  /\ given = None

Init == value \in Values /\ InitCaller

\* std::string s = value.stringify(pretty);
Stringify(pretty) ==
  /\ origin = "none"
  /\ calls = 0
  /\ text' = stringify(value, pretty, 0)
  /\ origin' = IF pretty THEN "pretty" ELSE "compact"
  /\ UNCHANGED <<value, parsed, out, given, accVars>>

\* Json::parse(text), caught by the caller
Parse ==
  /\ origin # "none"
  /\ parsed = None
  /\ parsed' = ParseResult(text)
  /\ UNCHANGED <<value, text, origin, out, given, accVars>>

\* parsed.stringify(pretty)
Restringify(pretty) ==
  /\ parsed.kind = "value"
  /\ out = None
  /\ out' = [kind |-> "text", pretty |-> pretty, s |-> stringify(parsed.val, pretty, 0)]
  /\ UNCHANGED <<value, text, origin, parsed, given, accVars>>

Next ==
  \/ \E pretty \in BOOLEAN : Stringify(pretty)
  \/ Parse
  \/ \E pretty \in BOOLEAN : Restringify(pretty)

Spec == Init /\ [][Next]_vars

\* ------------------------------------------------------------------------
\* Round trip, pretty-printing, string serialization
\* ------------------------------------------------------------------------
\* C1: Round-trip.  For every value v, Json::parse(v.stringify(false))
\* succeeds and returns a value structurally equal to v.
C1_RoundTrip ==
  (origin = "compact" /\ parsed # None) =>
    (parsed.kind = "value" /\ parsed.val = value)

\* C2: Idempotent pretty-printing.  With s1 = v.stringify(true),
\* Json::parse(s1) succeeds and Json::parse(s1).stringify(true) is s1.
C2_PrettyIdempotent ==
  origin = "pretty" =>
    /\ parsed # None => parsed.kind = "value"
    /\ (out # None /\ out.pretty) => out.s = text

\* The text the claim C10 gives for one character of a string
C10_Escaped(c) ==
  CASE c = 34 -> <<92, 34>>
    [] c = 92 -> <<92, 92>>
    [] c = 8 -> <<92, 98>>
    [] c = 12 -> <<92, 102>>
    [] c = 10 -> <<92, 110>>
    [] c = 13 -> <<92, 114>>
    [] c = 9 -> <<92, 116>>
    [] OTHER ->
         IF c < 32
         THEN <<92, 117, 48, 48, HexDigit(c \div 16), HexDigit(c % 16)>>
         ELSE <<c>>

RECURSIVE C10_Body(_)
C10_Body(s) == IF s = <<>> THEN <<>> ELSE C10_Escaped(Head(s)) \o C10_Body(Tail(s))

\* C10: String serialization and re-parse.  For every String s, the text
\* s.stringify() is '"' + body + '"', where quote, backslash, backspace,
\* formfeed, newline, carriage return and tab appear as their two-character
\* escapes, every other character below 0x20 as \u00XX, every other byte
\* verbatim; and Json::parse of that text returns a String equal to s.
C10_StringSerialization ==
  (is_string(value) /\ origin \in {"compact", "pretty"}) =>
    /\ text = <<34>> \o C10_Body(value.s) \o <<34>>
    /\ parsed # None => (parsed.kind = "value" /\ parsed.val = value)

\* A string with a \u00XX character, a two-character escape and a byte
\* above 127 has been serialized and parsed back
C10_Witness ==
  /\ is_string(value)
  /\ value.s \in {<<31, QUOTE>>, <<233, 31>>}
  /\ origin = "compact"
  /\ parsed.kind = "value"

\* ------------------------------------------------------------------------
\* Accessor calls
\* ------------------------------------------------------------------------
MaxCalls == 2
MaxIndex == 3

\* Keys the caller indexes with: 'a', 'b', 'c'
AccessKeys == {<<97>>, <<98>>, <<99>>}

AccValues == Nest(1)

InitAcc == value \in AccValues /\ InitCaller

\* A call of a read-only accessor with outcome r
Called(op, r) ==
  /\ origin = "none"
  /\ calls < MaxCalls
  /\ acc.kind # "crash"
  /\ before' = value
  /\ acc' = [op |-> op] @@ r
  /\ calls' = calls + 1
  /\ caught' = caught + (IF r.kind = "runtime_error" THEN 1 ELSE 0)
  /\ UNCHANGED textVars

AsBool == Called("as_bool", as_bool(value)) /\ value' = value
AsNumber == Called("as_number", as_number(value)) /\ value' = value
AsString == Called("as_string", as_string(value)) /\ value' = value
AsArray == Called("as_array", as_array(value)) /\ value' = value
AsObject == Called("as_object", as_object(value)) /\ value' = value

\* value[index]
IndexAt(index) ==
  /\ \E r \in index_at(value, index) : Called("index", [idx |-> index] @@ r)
  /\ value' = value

\* value[key] on a mutable Json
IndexKey(key) ==
  /\ Called("key", [key |-> key] @@ index_key(value, key).res)
  /\ value' = index_key(value, key).json

\* value[key] on a const Json
IndexKeyConst(key) ==
  /\ Called("key_const", [key |-> key] @@ index_key_const(value, key))
  /\ value' = value

NextAcc ==
  \/ AsBool
  \/ AsNumber
  \/ AsString
  \/ AsArray
  \/ AsObject
  \/ \E index \in 0..MaxIndex : IndexAt(index)
  \/ \E key \in AccessKeys : IndexKey(key)
  \/ \E key \in AccessKeys : IndexKeyConst(key)

SpecAcc == InitAcc /\ [][NextAcc]_vars

\* C3: Indexing by integer position is checked.  On an Array of length n,
\* operator[](i) with i >= n fails with an explicit IndexOutOfRange error
\* and returns no element; with i < n it returns the element at position i.
C3_IndexChecked ==
  (acc.kind # "none" /\ acc.op = "index" /\ is_array(before)) =>
    IF acc.idx < Len(before.a)
    THEN acc.kind = "value" /\ acc.val = before.a[acc.idx + 1]
    ELSE acc.kind = "IndexOutOfRange"

\* The last call is one of the failing calls the claim C4 lists
C4_Failing ==
  /\ acc.kind # "none"
  /\ \/ acc.op = "as_bool" /\ ~is_bool(before)
     \/ acc.op = "as_number" /\ ~is_number(before)
     \/ acc.op = "as_string" /\ ~is_string(before)
     \/ acc.op = "as_array" /\ ~is_array(before)
     \/ acc.op = "as_object" /\ ~is_object(before)
     \/ acc.op = "index" /\ ~is_array(before)
     \/ acc.op \in {"key", "key_const"} /\ ~is_object(before)
     \/ acc.op = "key_const" /\ is_object(before) /\ acc.key \notin DOMAIN before.o

\* The last call is an accessor of the active variant; what it returns
C4_Matching ==
  /\ acc.kind # "none"
  /\ \/ acc.op = "as_bool" /\ is_bool(before)
     \/ acc.op = "as_number" /\ is_number(before)
     \/ acc.op = "as_string" /\ is_string(before)
     \/ acc.op = "as_array" /\ is_array(before)
     \/ acc.op = "as_object" /\ is_object(before)

C4_Payload ==
  CASE acc.op = "as_bool" -> acc.val = before.b
    [] acc.op = "as_number" -> acc.val = [n |-> before.n, e |-> before.e]
    [] acc.op = "as_string" -> acc.val = before.s
    [] acc.op = "as_array" -> acc.val = before.a
    [] acc.op = "as_object" -> acc.val = before.o

\* C4: Every failing accessor is a typed failure that leaves the value tree
\* unchanged: an as_* call on another variant, operator[](size_t) on a
\* non-array, operator[](key) on a non-object and the immutable
\* operator[](key) on an object lacking the key raise an error, return no
\* payload, and the tree after the call equals the tree before it; an
\* accessor matching the active variant then still succeeds.
C4_TypedFailure ==
  /\ C4_Failing =>
       /\ acc.kind = "runtime_error"
       /\ "val" \notin DOMAIN acc
       /\ value = before
  /\ C4_Matching => (acc.kind = "value" /\ C4_Payload /\ value = before)

\* A call threw, and the next call, an accessor of the active variant,
\* returned the payload
C4_Witness ==
  /\ calls = 2
  /\ caught = 1
  /\ C4_Matching
  /\ acc.kind = "value"

\* C5: Auto-vivification.  The mutable operator[](key) on an Object with no
\* entry for key adds exactly one entry, key -> Null, returns a reference to
\* it and leaves every other entry unchanged; when the key is present it
\* returns the existing entry and the object is unchanged.
C5_AutoVivification ==
  (acc.kind # "none" /\ acc.op = "key" /\ is_object(before)) =>
    /\ acc.kind = "value"
    /\ is_object(value)
    /\ IF acc.key \in DOMAIN before.o
       THEN value = before /\ acc.val = before.o[acc.key]
       ELSE /\ DOMAIN value.o = DOMAIN before.o \cup {acc.key}
            /\ value.o[acc.key] = JNull
            /\ acc.val = JNull
            /\ \A k \in DOMAIN before.o : value.o[k] = before.o[k]

\* An absent key was indexed on an object that has other entries
C5_Witness ==
  /\ acc.kind = "value"
  /\ acc.op = "key"
  /\ is_object(before)
  /\ DOMAIN before.o # {}
  /\ acc.key \notin DOMAIN before.o
  /\ acc.key \in DOMAIN value.o

\* ------------------------------------------------------------------------
\* Parsing given texts
\* ------------------------------------------------------------------------
MaxTextLen == 4
MaxPairs == 3

\* Structural characters, a digit and a space
InChars == {LBRACKET, RBRACKET, LBRACE, RBRACE, QUOTE, COMMA, COLON, 49, SPACE}

\* A text over InChars
ShortInput(t) == [text |-> t, given |-> [kind |-> "short"]]

\* Values whose texts are cut, extended and decorated below
Samples ==
  Nest(1)
  \cup {JBool(TRUE), JNumber(0), JNumber(305), JString(<<31, BACKSLASH>>),
        JObject(MapPut(EmptyMap, <<QUOTE, 97>>, JString(<<TAB>>)))}

\* A valid JSON text of v: stringify, but with the object keys escaped like
\* strings
ValidText(v, pretty) ==
  IF is_object(v) \/ is_array(v)
  THEN stringify(
         IF is_array(v) THEN v
         ELSE JObject([k \in {EscapeAll(x) : x \in DOMAIN v.o} |->
                         v.o[CHOOSE x \in DOMAIN v.o : EscapeAll(x) = k]]),
         pretty, 0)
  ELSE stringify(v, pretty, 0)

\* Every text cut off before its end.  The cut text is incomplete unless it
\* is itself a number ("30" cut from "305").
CutInputs ==
  UNION {
    LET full == ValidText(v, pretty)
    IN {[text |-> SubSeq(full, 1, k),
         given |-> [kind |-> "cut",
                    incomplete |-> ~is_number(v) \/ SubSeq(full, 1, k) \in {<<>>, <<MINUS>>}]] :
          k \in 0..(Len(full) - 1)} :
    v \in Samples, pretty \in BOOLEAN}

\* Whitespace between tokens
Gaps == {<<>>, <<SPACE>>, <<NL, TAB>>}

\* Where a value's text stands: alone, or as the last element of an array,
\* or as the value of an object's entry
Contexts ==
  {[pre |-> <<>>, post |-> <<>>],
   [pre |-> <<SPACE>>, post |-> <<NL>>],
   [pre |-> <<LBRACKET, 55, COMMA>>, post |-> <<RBRACKET>>],
   [pre |-> <<LBRACE, QUOTE, 97, QUOTE, COLON>>, post |-> <<SPACE, RBRACE>>]}

\* The text of a non-empty array or object with a ',' and a gap put before
\* its closing character; closer is the offset of that character
CommaInputs ==
  UNION {
    LET body == ValidText(v, pretty)
        n == Len(body)
    IN {[text |-> c.pre \o SubSeq(body, 1, n - 1) \o <<COMMA>> \o gap
                   \o <<body[n]>> \o c.post,
         given |-> [kind |-> "comma", closer |-> Len(c.pre) + n + Len(gap)]] :
          gap \in Gaps, c \in Contexts} :
    v \in {x \in Samples : (is_array(x) /\ x.a # <<>>)
                            \/ (is_object(x) /\ DOMAIN x.o # {})},
    pretty \in BOOLEAN}

\* What may follow a value's text: nothing, or a text that starts with a
\* character that is not whitespace
Junk ==
  {<<>>, <<RBRACKET>>, <<RBRACE>>, <<COMMA>>, <<COLON, 49>>, <<49>>, <<DOT, 53>>,
   <<101, 49>>, NullText, <<QUOTE, QUOTE>>, <<LBRACKET, RBRACKET>>, <<120>>}

\* A number's text directly followed by a digit, '.', 'e' or 'E': the
\* parser is still scanning the number there
ExtendsNumber(v, gap, junk) ==
  /\ is_number(v)
  /\ gap = <<>>
  /\ junk # <<>>
  /\ (IsDigit(junk[1]) \/ junk[1] \in {DOT, 101, 69})

\* A value's text, a gap, then junk; at is the offset of the junk
TrailingInputs ==
  UNION {
    LET body == ValidText(v, pretty)
    IN {[text |-> lead \o body \o gap \o junk,
         given |-> [kind |-> "trailing", val |-> v, junk |-> junk,
                    at |-> Len(lead) + Len(body) + Len(gap),
                    extends |-> ExtendsNumber(v, gap, junk)]] :
          lead \in {<<>>, <<NL>>}, gap \in Gaps, junk \in Junk} :
    v \in Samples, pretty \in BOOLEAN}

\* Object texts built from a list of (key, value) pairs, keys repeating
PairKeys == {<<97>>, <<98>>, <<QUOTE>>}
PairValues == {JNumber(1), JNumber(2), JNull}
Pairs == [k : PairKeys, v : PairValues]

RECURSIVE PairsText(_)
PairsText(ps) ==
  IF ps = <<>> THEN <<>>
  ELSE StringText(ps[1].k) \o <<COLON>> \o stringify(ps[1].v, FALSE, 0)
       \o (IF Len(ps) > 1 THEN <<COMMA>> ELSE <<>>)
       \o PairsText(Tail(ps))

PairInput(ps) ==
  [text |-> <<LBRACE>> \o PairsText(ps) \o <<RBRACE>>,
   given |-> [kind |-> "pairs", pairs |-> ps]]

\* The caller is handed a text
Supply(input) ==
  /\ origin = "none"
  /\ calls = 0
  /\ text' = input.text
  /\ given' = input.given
  /\ origin' = "given"
  /\ UNCHANGED <<value, parsed, out, accVars>>

InitIn == value = JNull /\ InitCaller

\* The texts handed to Json::parse: every text over InChars up to
\* MaxTextLen, the cut, comma and trailing texts, and the object texts of
\* up to MaxPairs entries
SupplyShort ==
  /\ origin = "none"
  /\ \E k \in 0..MaxTextLen : \E t \in [1..k -> InChars] : Supply(ShortInput(t))

SupplyCut == origin = "none" /\ \E input \in CutInputs : Supply(input)

SupplyComma == origin = "none" /\ \E input \in CommaInputs : Supply(input)

SupplyTrailing == origin = "none" /\ \E input \in TrailingInputs : Supply(input)

SupplyPairs ==
  /\ origin = "none"
  /\ \E k \in 1..MaxPairs : \E ps \in [1..k -> Pairs] : Supply(PairInput(ps))

NextIn ==
  \/ SupplyShort
  \/ SupplyCut
  \/ SupplyComma
  \/ SupplyTrailing
  \/ SupplyPairs
  \/ Parse

SpecIn == InitIn /\ [][NextIn]_vars

\* ------------------------------------------------------------------------
\* Duplicate keys, trailing commas, the cursor, trailing content
\* ------------------------------------------------------------------------
\* C6: Duplicate keys, last write wins.  When Json::parse reads an object
\* text in which a key occurs several times, the Object has exactly one
\* entry per distinct key, and the entry of a repeated key holds the value
\* of its last occurrence in the text.
C6_DuplicateKeys ==
  (given.kind = "pairs" /\ parsed # None) =>
    /\ parsed.kind = "value"
    /\ is_object(parsed.val)
    /\ DOMAIN parsed.val.o = {given.pairs[i].k : i \in DOMAIN given.pairs}
    /\ \A i \in DOMAIN given.pairs :
         (\A j \in DOMAIN given.pairs : j > i => given.pairs[j].k # given.pairs[i].k)
           => parsed.val.o[given.pairs[i].k] = given.pairs[i].v

\* An object text where a key occurs twice with different values, and
\* another key between them, has been parsed
C6_Witness ==
  /\ given.kind = "pairs"
  /\ parsed.kind = "value"
  /\ Len(given.pairs) = 3
  /\ given.pairs[1].k = given.pairs[3].k
  /\ given.pairs[1].v # given.pairs[3].v
  /\ given.pairs[2].k # given.pairs[1].k

\* t has a ',' that is followed, after optional whitespace, by ']' or '}'
C7_CommaBeforeCloser(t) ==
  \E i \in 1..Len(t) :
    /\ t[i] = COMMA
    /\ \E j \in (i + 1)..Len(t) :
         /\ t[j] \in {RBRACKET, RBRACE}
         /\ \A k \in (i + 1)..(j - 1) : IsSpace(t[k])

\* C7: Error locality for trailing commas.  An object or array text in
\* which a ',' is followed, after optional whitespace, by the closing '}'
\* or ']' is never accepted; Json::parse fails with a JsonParseError whose
\* position() is the byte offset of that closing character.  The second
\* conjunct is the "never accepted" part on every short text without a
\* string literal.
C7_TrailingComma ==
  /\ (given.kind = "comma" /\ parsed # None) =>
       (parsed.kind = "error" /\ parsed.at = given.closer)
  /\ (/\ given.kind = "short"
      /\ parsed # None
      /\ \A i \in 1..Len(text) : text[i] # QUOTE
      /\ C7_CommaBeforeCloser(text)) => parsed.kind = "error"

\* An object text with a ',' and whitespace before its '}' has been
\* rejected at the '}'
C7_Witness ==
  /\ given.kind = "comma"
  /\ parsed.kind = "error"
  /\ parsed.at = given.closer
  /\ text[given.closer + 1] = RBRACE
  /\ IsSpace(text[given.closer])

\* C8: Bounded cursor on any input.  For every input text of length n, the
\* cursor pos_ stays in 0..n (pos_ is only ever increased, so its last value
\* is its highest), no character at an index >= n is read, the parse ends
\* with a Value or with a JsonParseError whose position() is in 0..n; a text
\* cut off before its value is complete ends with the error.
C8_BoundedCursor ==
  parsed # None =>
    /\ parsed.kind \in {"value", "error"}
    /\ parsed.pos \in 0..Len(text)
    /\ parsed.rd < Len(text)
    /\ parsed.kind = "error" => parsed.at \in 0..Len(text)
    /\ (given.kind = "cut" /\ given.incomplete) => parsed.kind = "error"

\* A text cut off inside the four hex digits of a \u escape has been
\* rejected
C8_Witness ==
  /\ given.kind = "cut"
  /\ given.incomplete
  /\ parsed.kind = "error"
  /\ Len(text) >= 4
  /\ text[Len(text) - 2] = BACKSLASH
  /\ text[Len(text) - 1] = 117
  /\ parsed.pos <= Len(text)

\* C9: Exactly one top-level value.  If after one complete JSON value and
\* any following whitespace the input still has a character, Json::parse
\* fails with the error "Unexpected characters after JSON value" positioned
\* at the first such character and returns no value; if only whitespace
\* follows, the parse succeeds with that value.  The value is complete
\* where the parser ends it: a digit, '.', 'e' or 'E' right after a number
\* is still read as part of the number.
C9_TopLevel ==
  (given.kind = "trailing" /\ ~given.extends /\ parsed # None) =>
    IF given.junk = <<>>
    THEN parsed.kind = "value" /\ parsed.val = given.val
    ELSE /\ parsed.kind = "error"
         /\ parsed.msg = "Unexpected characters after JSON value"
         /\ parsed.at = given.at
         /\ "val" \notin DOMAIN parsed

\* A value followed by whitespace and one more character has been rejected
\* at that character
C9_Witness ==
  /\ given.kind = "trailing"
  /\ ~given.extends
  /\ given.junk # <<>>
  /\ given.at > 0
  /\ IsSpace(text[given.at])
  /\ parsed.kind = "error"
  /\ parsed.at = given.at

\* ------------------------------------------------------------------------
\* Number texts
\* ------------------------------------------------------------------------
MaxNumLen == 5

\* '-', '+', '.', 'e', 'E', '0', '9'
NumChars == {MINUS, PLUS, DOT, 101, 69, DIGIT0, DIGIT9}

\* A text over NumChars
NumberInput(t) == [text |-> t, given |-> [kind |-> "number"]]

SupplyNumber ==
  /\ origin = "none"
  /\ \E k \in 0..MaxNumLen : \E t \in [1..k -> NumChars] : Supply(NumberInput(t))

NextNum ==
  \/ SupplyNumber
  \/ Parse

SpecNum == InitIn /\ [][NextNum]_vars

\* The index after the digits of t that start at index i
RECURSIVE C11_DigitsEnd(_, _)
C11_DigitsEnd(t, i) ==
  IF i <= Len(t) /\ t[i] >= 48 /\ t[i] <= 57 THEN C11_DigitsEnd(t, i + 1) ELSE i

\* The index after one or more digits at i; 0: there is no digit
C11_Digits1(t, i) == IF i > 0 /\ C11_DigitsEnd(t, i) > i THEN C11_DigitsEnd(t, i) ELSE 0

\* The index after an optional '-' at i
C11_Sign(t, i) == IF i <= Len(t) /\ t[i] = 45 THEN i + 1 ELSE i

\* The index after a single '0', or a nonzero digit followed by digits
C11_Int(t, i) ==
  IF i <= Len(t) /\ t[i] = 48 THEN i + 1
  ELSE IF i <= Len(t) /\ t[i] >= 49 /\ t[i] <= 57 THEN C11_DigitsEnd(t, i)
  ELSE 0

\* The index after an optional '.' with one or more digits
C11_Frac(t, i) ==
  IF i > 0 /\ i <= Len(t) /\ t[i] = 46 THEN C11_Digits1(t, i + 1) ELSE i

\* The index after the optional sign of an exponent
C11_ExpSign(t, i) == IF i <= Len(t) /\ t[i] \in {43, 45} THEN i + 1 ELSE i

\* The index after an optional 'e' or 'E' with optional sign and one or
\* more digits
C11_Exp(t, i) ==
  IF i > 0 /\ i <= Len(t) /\ t[i] \in {101, 69}
  THEN C11_Digits1(t, C11_ExpSign(t, i + 1))
  ELSE i

\* The whole text t matches the number grammar of the claim C11
C11_Matches(t) == C11_Exp(t, C11_Frac(t, C11_Int(t, C11_Sign(t, 1)))) = Len(t) + 1

\* C11 as stated: Number grammar.  For every input text over '-', '+',
\* '.', 'e', 'E' and digits, Json::parse returns a Number exactly when the
\* whole text matches the grammar; every other such text is rejected with a
\* parse error.
C11_NumberGrammar ==
  (given.kind = "number" /\ parsed # None) =>
    IF C11_Matches(text)
    THEN parsed.kind = "value" /\ is_number(parsed.val)
    ELSE parsed.kind = "error"

\* C11, amended: Json::parse returns a Number exactly when the whole text
\* matches the grammar and std::stod converts it without a range error; a
\* matching text whose value is out of the range of double is rejected with
\* "Invalid number format" at the start of the number, and every text that
\* does not match is rejected with a parse error.
C11_NumberGrammarInRange ==
  (given.kind = "number" /\ parsed # None) =>
    IF C11_Matches(text) /\ StodInRange(Stod(text))
    THEN parsed.kind = "value" /\ is_number(parsed.val)
    ELSE /\ parsed.kind = "error"
         /\ C11_Matches(text) =>
              (parsed.msg = "Invalid number format" /\ parsed.at = 0)

\* A text that matches the grammar has been rejected: its value is out of
\* range
C11_Witness ==
  /\ given.kind = "number"
  /\ C11_Matches(text)
  /\ parsed.kind = "error"
  /\ parsed.msg = "Invalid number format"

\* ------------------------------------------------------------------------
\* Unicode escapes
\* ------------------------------------------------------------------------
MaxUniLen == 4

\* '0', '4', 'a', 'F', 'g', 'x', ' ', '-', '+', '"'
UniChars == {DIGIT0, 52, 97, 70, 103, 120, SPACE, MINUS, PLUS, QUOTE}

\* A string literal that starts with \u: '"', '\', 'u', t, '"'
UnicodeInput(t) ==
  [text |-> <<QUOTE, BACKSLASH, 117>> \o t \o <<QUOTE>>,
   given |-> [kind |-> "unicode", tail |-> t]]

SupplyUnicode ==
  /\ origin = "none"
  /\ \E k \in 0..MaxUniLen : \E t \in [1..k -> UniChars] : Supply(UnicodeInput(t))

NextUni ==
  \/ SupplyUnicode
  \/ Parse

SpecUni == InitIn /\ [][NextUni]_vars

C12_IsHexDigit(c) ==
  (c >= 48 /\ c <= 57) \/ (c >= 65 /\ c <= 70) \/ (c >= 97 /\ c <= 102)

C12_HexValue(c) ==
  IF c <= 57 THEN c - 48 ELSE IF c <= 70 THEN c - 55 ELSE c - 87

\* The code point of the four hex digits of t at 4..7
C12_CodePoint(t) ==
  4096 * C12_HexValue(t[4]) + 256 * C12_HexValue(t[5])
  + 16 * C12_HexValue(t[6]) + C12_HexValue(t[7])

\* The character the claim C12 gives for a code point
C12_Char(cp) == IF cp < 128 THEN cp ELSE 63

\* The four characters after the \u of text are there and are hex digits
C12_FourHex == Len(text) >= 7 /\ \A i \in 4..7 : C12_IsHexDigit(text[i])

\* What follows the four characters, up to the closing quote of the text
C12_Rest == SubSeq(text, 8, Len(text) - 1)

\* C12: Unicode escapes in strings.  Inside a string literal, \u is
\* accepted only when the next four characters are all hex digits; it then
\* consumes exactly those four characters and appends exactly one character
\* to the result, the ASCII character of the code point when it is below
\* 128 and '?' otherwise.  When any of the four characters is not a hex
\* digit, or fewer than four characters remain, Json::parse fails with a
\* parse error.
C12_UnicodeEscape ==
  (given.kind = "unicode" /\ parsed # None) =>
    IF C12_FourHex
    THEN (\A i \in 1..Len(C12_Rest) : C12_Rest[i] \notin {QUOTE, BACKSLASH}) =>
           /\ parsed.kind = "value"
           /\ parsed.val = JString(<<C12_Char(C12_CodePoint(text))>> \o C12_Rest)
    ELSE parsed.kind = "error"

====
